---- MODULE Spec2Model ----
(***************************************************************************)
(* A model of TextChunker.create_chunks (src/offline/chunking.py), of the   *)
(* configuration loader (src/config.py), of the retried remote calls       *)
(* (tenacity's retry around _call_openai, _embed_texts, _upsert_vectors    *)
(* and _query_pinecone) and of VectorRetriever.retrieve                    *)
(* (src/online/retrieval.py).  Each component has its own specification;   *)
(* the variables of the other components stay at rest in it.               *)
(*                                                                         *)
(* A sentence is identified by its position 1..n in the list returned by   *)
(* split_into_sentences.  A text is the sequence of the positions of the   *)
(* sentences it joins with single spaces, so that " ".join(xs) is the      *)
(* sequence xs and a + " " + b is the concatenation a \o b; its length in  *)
(* characters and its token count are computed from the sentences'.        *)
(* The per-sentence token count is revealed when the loop first calls      *)
(* count_tokens on the sentence (line 112) and is the same on every later  *)
(* call.  previous_chunk_text is assigned and never read; it is left out.  *)
(* The float test combined_tokens <= chunk_max_tokens * 1.2 is written in  *)
(* integers, 5 * combined_tokens <= 6 * chunk_max_tokens.                  *)
(***************************************************************************)
EXTENDS Integers, Sequences, FiniteSets

VARIABLES
    config,                   \* self.config: the four chunking parameters
    document,                 \* the segmented input: number of sentences, and
                              \*   the token counts its sentences may have
    join_cost,                \* tokens the tokenizer adds per join boundary
    tok,                      \* tok[p]: count_tokens(sentences[p]), once computed
    i,                        \* loop index (1-based position of the sentence)
    chunks,                   \* chunks
    current_chunk_sentences,  \* current_chunk_sentences
    current_tokens,           \* current_tokens
    char_position,            \* char_position
    overlap_sentences,        \* overlap_sentences of the latest finalization
    overlap_tokens,           \* overlap_tokens of the latest finalization
    pc,                       \* "start", "loop", "append", "tail", "done",
                              \*   "raised"
    returned,                 \* {} until create_chunks returns, then {its value}
    raised                    \* {} unless an exception left create_chunks,
                              \*   then {the exception}

chunkerVars ==
    <<config, document, join_cost, tok, i, chunks, current_chunk_sentences,
      current_tokens, char_position, overlap_sentences, overlap_tokens, pc,
      returned, raised>>

VARIABLES
    environ,                  \* os.environ as from_env reads it (after load_dotenv)
    global_config,            \* _config: {} for None, else {the Config}
    last_call                 \* the latest get_config / reload_config call made
                              \*   since the environment last changed

loaderVars == <<environ, global_config, last_call>>

VARIABLES
    retry_fn,                 \* the decorated function invoked
    texts_empty,              \* _embed_texts only: the argument is the empty list
    attempt_log,              \* what each attempt made so far did
    attempt_number,           \* retry_state.attempt_number of the latest attempt
    retry_pc,                 \* "attempt", "returned", "raised"
    retry_returned,           \* {} until the invocation returns, then {its value}
    retry_raised              \* {} unless the invocation raised, then {exception}

retryVars ==
    <<retry_fn, texts_empty, attempt_log, attempt_number, retry_pc,
      retry_returned, retry_raised>>

VARIABLES
    query_embedding,          \* len(query_embedding)
    min_score,                \* the min_score argument: {} for None, else {v}
    index_response,           \* what _query_pinecone does: raises, or the matches
    retrieve_pc,              \* "called", "returned", "raised"
    retrieve_returned,        \* {} until retrieve returns, then {its value}
    retrieve_raised           \* {} unless retrieve raised, then {exception}

retrieverVars ==
    <<query_embedding, min_score, index_response, retrieve_pc,
      retrieve_returned, retrieve_raised>>

\* The variables of the other components.
nonChunkerVars == <<loaderVars, retryVars, retrieverVars>>

vars == <<chunkerVars, nonChunkerVars>>

\* An environment variable: unset, set to text that int() and float() reject,
\* or set to the decimal text of a number (value: the number it parses to).
EnvUnset == [kind |-> "unset", value |-> 0]
EnvText == [kind |-> "text", value |-> 0]
EnvInt(n) == [kind |-> "int", value |-> n]

NoCall == [op |-> "none", loaded |-> FALSE, returned |-> {}, raised |-> {}]

\* The components at rest.
LoaderIdle ==
    /\ environ = [required_present |-> FALSE,
                  CHUNK_MIN_TOKENS |-> EnvUnset, CHUNK_MAX_TOKENS |-> EnvUnset,
                  CHUNK_OVERLAP_MIN |-> EnvUnset, CHUNK_OVERLAP_MAX |-> EnvUnset,
                  TOP_K |-> EnvUnset, RETRIEVAL_MIN_SCORE |-> EnvUnset]
    /\ global_config = {}
    /\ last_call = NoCall

RetryIdle ==
    /\ retry_fn = "none"
    /\ texts_empty = FALSE
    /\ attempt_log = <<>>
    /\ attempt_number = 0
    /\ retry_pc = "idle"
    /\ retry_returned = {}
    /\ retry_raised = {}

RetrieverIdle ==
    /\ query_embedding = 0
    /\ min_score = {}
    /\ index_response = [ok |-> TRUE, matches |-> <<>>]
    /\ retrieve_pc = "idle"
    /\ retrieve_returned = {}
    /\ retrieve_raised = {}

NonChunkerIdle == LoaderIdle /\ RetryIdle /\ RetrieverIdle

(***************************************************************************)
(* Bounds of the exploration.                                              *)
(***************************************************************************)
MaxSentences == 4
MaxTok == 6
MaxJoinCost == 1
CharsPerToken == 4

(***************************************************************************)
(* Configuration (src/config.py).                                          *)
(***************************************************************************)
DefaultChunkMinTokens == 400
DefaultChunkMaxTokens == 800
DefaultChunkOverlapMin == 80
DefaultChunkOverlapMax == 150

DefaultConfig ==
    [chunk_min_tokens |-> DefaultChunkMinTokens,
     chunk_max_tokens |-> DefaultChunkMaxTokens,
     chunk_overlap_min |-> DefaultChunkOverlapMin,
     chunk_overlap_max |-> DefaultChunkOverlapMax]

\* The range validation of Config.from_env.
\* The range validation without the test of the overlap against the minimum.
ValidConfig_NoOverlapVsMin(c) ==
    /\ ~(c.chunk_min_tokens >= c.chunk_max_tokens)
    /\ ~(c.chunk_overlap_min >= c.chunk_overlap_max)

ValidConfig(c) ==
    /\ ~(c.chunk_min_tokens >= c.chunk_max_tokens)
    /\ ~(c.chunk_overlap_min >= c.chunk_overlap_max)
    /\ ~(c.chunk_overlap_max >= c.chunk_min_tokens)

Cfg(mn, mx, omin, omax) ==
    [chunk_min_tokens |-> mn, chunk_max_tokens |-> mx,
     chunk_overlap_min |-> omin, chunk_overlap_max |-> omax]

\* Small configurations explored exhaustively.
SmallConfigs ==
    {Cfg(3, 5, 1, 2), Cfg(4, 10, 1, 2), Cfg(5, 10, 2, 4), Cfg(5, 15, 2, 4)}

\* Documents: every document of up to MaxSentences sentences of 1..MaxTok
\* tokens each under the small configurations, and the documents of the
\* specification's scenarios under the default configuration.
ExploreDocuments == [len : 0..MaxSentences, tokens : {1..MaxTok}]

ScenarioDocuments ==
    {[len |-> 20, tokens |-> {50}],
     [len |-> 1, tokens |-> {2000}],
     [len |-> 1, tokens |-> {10}]}

\* Documents of five sentences of 50, 90, 100 or 700 tokens each, under the
\* default configuration.
DefaultDocuments == {[len |-> 5, tokens |-> {50, 90, 100, 700}]}

Runs ==
    ({c \in SmallConfigs : ValidConfig(c)} \X ExploreDocuments)
        \cup ({c \in {DefaultConfig} : ValidConfig(c)}
                  \X (ScenarioDocuments \cup DefaultDocuments))

(***************************************************************************)
(* Token Counter and text length.                                          *)
(***************************************************************************)
RECURSIVE SumTok(_, _)
SumTok(toks, text) ==
    IF text = <<>> THEN 0
    ELSE toks[Head(text)] + SumTok(toks, Tail(text))

\* count_tokens on a joined text: the sentences' counts, plus what the
\* tokenizer adds at each of the Len(text) - 1 join boundaries.
CountTokens(toks, text) ==
    IF text = <<>> THEN 0
    ELSE SumTok(toks, text) + join_cost * (Len(text) - 1)

\* len(sentence), for a sentence of t tokens.
SentenceChars(t) == CharsPerToken * t

RECURSIVE SumChars(_, _)
SumChars(toks, text) ==
    IF text = <<>> THEN 0
    ELSE SentenceChars(toks[Head(text)]) + SumChars(toks, Tail(text))

\* len(" ".join(text)).
TextLen(toks, text) ==
    IF text = <<>> THEN 0
    ELSE SumChars(toks, text) + (Len(text) - 1)

(***************************************************************************)
(* Chunk construction.                                                     *)
(***************************************************************************)
\* A one-based chunk_id.
NextChunkId_OneBased(cs) == Len(cs) + 1

\* chunk_id=len(chunks)
NextChunkId(cs) == Len(cs)

\* The running per-sentence sum stored instead of the recomputed count.
ChunkTokenCount_RunningSum(toks, text, running) == running

\* token_count=self.count_tokens(chunk_text); the running sum is not used.
ChunkTokenCount(toks, text, running) == CountTokens(toks, text)

\* Chunk(text=chunk_text, token_count=chunk_token_count, chunk_id=len(chunks),
\*       start_char=char_position, end_char=char_position + len(chunk_text))
NewChunk(toks, cs, text, running, pos) ==
    [text |-> text,
     token_count |-> ChunkTokenCount(toks, text, running),
     chunk_id |-> NextChunkId(cs),
     start_char |-> pos,
     end_char |-> pos + TextLen(toks, text)]

\* The budget test without the test that the buffer holds a sentence.
Overflows_NoBufferTest(t) == current_tokens + t > config.chunk_max_tokens

\* The budget test with >= in place of >.
Overflows_AtBudget(t) ==
    /\ current_tokens + t >= config.chunk_max_tokens
    /\ current_chunk_sentences # <<>>

\* if current_tokens + sentence_tokens > chunk_max_tokens and current_chunk_sentences
Overflows(t) ==
    /\ current_tokens + t > config.chunk_max_tokens
    /\ current_chunk_sentences # <<>>

(***************************************************************************)
(* The overlap walk: backwards over the finalized sentences, prepending    *)
(* while the sum stays within chunk_overlap_max, stopping at the first     *)
(* sentence that does not fit.                                             *)
(***************************************************************************)
\* The walk testing each sentence alone, forgetting what it has accumulated.
FitsOverlap_NoAccumulation(acc_tokens, t) == t <= config.chunk_overlap_max

\* if overlap_tokens + sentence_tok <= chunk_overlap_max
\* The overlap test against chunk_max_tokens in place of chunk_overlap_max.
FitsOverlap_AgainstMax(acc_tokens, t) == acc_tokens + t <= config.chunk_max_tokens

FitsOverlap(acc_tokens, t) == acc_tokens + t <= config.chunk_overlap_max

\* A walk that skips a sentence that does not fit and goes on to the earlier
\* ones (continue in place of break).
RECURSIVE OverlapWalk_Skipping(_, _, _, _)
OverlapWalk_Skipping(toks, sents, k, acc) ==
    IF k = 0 THEN acc
    ELSE IF FitsOverlap(acc.tokens, toks[sents[k]])
         THEN OverlapWalk_Skipping(toks, sents, k - 1,
                          [sentences |-> <<sents[k]>> \o acc.sentences,
                           tokens |-> acc.tokens + toks[sents[k]]])
         ELSE OverlapWalk_Skipping(toks, sents, k - 1, acc)

RECURSIVE OverlapWalk(_, _, _, _)
OverlapWalk(toks, sents, k, acc) ==
    IF k = 0 THEN acc
    ELSE IF FitsOverlap(acc.tokens, toks[sents[k]])
         THEN OverlapWalk(toks, sents, k - 1,
                          [sentences |-> <<sents[k]>> \o acc.sentences,
                           tokens |-> acc.tokens + toks[sents[k]]])
         ELSE acc

BuildOverlap(toks, sents) ==
    OverlapWalk(toks, sents, Len(sents), [sentences |-> <<>>, tokens |-> 0])

\* if overlap_tokens >= chunk_overlap_min
OverlapAccepted(ov_tokens) == ov_tokens >= config.chunk_overlap_min

\* The buffer and running sum the next chunk starts from.
SeedBuffer(ov) == IF OverlapAccepted(ov.tokens) THEN ov.sentences ELSE <<>>
\* A seed kept in the buffer with the running sum reset to 0.
SeedTokens_Zero(ov) == 0

SeedTokens(ov) == IF OverlapAccepted(ov.tokens) THEN ov.tokens ELSE 0

(***************************************************************************)
(* Initial state: create_chunks is called; document is what the Sentence   *)
(* Segmenter returns for the text, if it returns.                          *)
(***************************************************************************)
Init ==
    /\ \E r \in Runs : config = r[1] /\ document = r[2]
    /\ join_cost \in 0..MaxJoinCost
    /\ tok = <<>>
    /\ i = 1
    /\ chunks = <<>>
    /\ current_chunk_sentences = <<>>
    /\ current_tokens = 0
    /\ char_position = 0
    /\ overlap_sentences = <<>>
    /\ overlap_tokens = 0
    /\ pc = "start"
    /\ returned = {}
    /\ raised = {}
    /\ NonChunkerIdle

\* if not sentences: return []
NoSentences ==
    /\ pc = "start"
    /\ document.len = 0
    /\ pc' = "done"
    /\ returned' = {<<>>}
    /\ UNCHANGED <<config, document, join_cost, tok, i, chunks,
                   current_chunk_sentences, current_tokens, char_position,
                   overlap_sentences, overlap_tokens, raised>>
    /\ UNCHANGED nonChunkerVars

\* chunks = [] ... entering the for loop
EnterLoop ==
    /\ pc = "start"
    /\ document.len > 0
    /\ pc' = "loop"
    /\ UNCHANGED <<config, document, join_cost, tok, i, chunks,
                   current_chunk_sentences, current_tokens, char_position,
                   overlap_sentences, overlap_tokens, returned, raised>>
    /\ UNCHANGED nonChunkerVars

\* The budget-overflow branch of an iteration: finalize the buffer, build the
\* overlap, seed the next buffer, advance the cursor.
Finalize ==
    /\ pc = "loop"
    /\ \E t \in document.tokens :
        /\ Overflows(t)
        /\ tok' = Append(tok, t)
    /\ LET chunk_text == current_chunk_sentences
           ov == BuildOverlap(tok, current_chunk_sentences)
       IN  /\ chunks' = Append(chunks, NewChunk(tok, chunks, chunk_text,
                                                current_tokens, char_position))
           /\ overlap_sentences' = ov.sentences
           /\ overlap_tokens' = ov.tokens
           /\ current_chunk_sentences' = SeedBuffer(ov)
           /\ current_tokens' = SeedTokens(ov)
           /\ char_position' = char_position + TextLen(tok, chunk_text) + 1
    /\ pc' = "append"
    /\ UNCHANGED <<config, document, join_cost, i, returned, raised>>
    /\ UNCHANGED nonChunkerVars

\* if i == len(sentences) - 1 and current_tokens >= chunk_min_tokens
\* The end-of-input test with > in place of >=.
EndOfInputFinalizes_Strict(idx, running) ==
    /\ idx = document.len
    /\ running > config.chunk_min_tokens

EndOfInputFinalizes(idx, running) ==
    /\ idx = document.len
    /\ running >= config.chunk_min_tokens

\* The rest of an iteration: append the sentence, and finalize at the end of
\* the input when the running sum has reached chunk_min_tokens.
AppendSentence ==
    /\ \/ /\ pc = "append"
          /\ tok' = tok
       \/ /\ pc = "loop"
          /\ \E t \in document.tokens :
                /\ ~Overflows(t)
                /\ tok' = Append(tok, t)
    /\ LET buffer == Append(current_chunk_sentences, i)
           running == current_tokens + tok'[i]
       IN  /\ current_chunk_sentences' = buffer
           /\ current_tokens' = running
           /\ chunks' = IF EndOfInputFinalizes(i, running)
                        THEN Append(chunks, NewChunk(tok', chunks, buffer,
                                                     running, char_position))
                        ELSE chunks
    /\ i' = i + 1
    /\ pc' = IF i = document.len THEN "tail" ELSE "loop"
    /\ UNCHANGED <<config, document, join_cost, char_position,
                   overlap_sentences, overlap_tokens, returned, raised>>
    /\ UNCHANGED nonChunkerVars

(***************************************************************************)
(* After the loop: the remaining sentences.                                *)
(***************************************************************************)
\* if current_chunk_sentences and len(chunks) > 0
TailRuns == current_chunk_sentences # <<>> /\ Len(chunks) > 0

\* combined_text = last_chunk.text + " " + remaining_text
CombinedText == chunks[Len(chunks)].text \o current_chunk_sentences

\* The merge test with the boundary excluded.
MergeFits_Strict(combined_tokens) == 5 * combined_tokens < 6 * config.chunk_max_tokens

\* if combined_tokens <= chunk_max_tokens * 1.2
MergeFits(combined_tokens) == 5 * combined_tokens <= 6 * config.chunk_max_tokens

\* chunks[-1] = Chunk(text=combined_text, token_count=combined_tokens,
\*     chunk_id=last_chunk.chunk_id, start_char=last_chunk.start_char,
\*     end_char=last_chunk.end_char + len(remaining_text) + 1)
\* A merge that does not count the separator in end_char.
MergedChunk_NoSeparator(last, remaining) ==
    [text |-> last.text \o remaining,
     token_count |-> CountTokens(tok, last.text \o remaining),
     chunk_id |-> last.chunk_id,
     start_char |-> last.start_char,
     end_char |-> last.end_char + TextLen(tok, remaining)]

\* A merge that puts the remaining sentences before the last chunk's text.
MergedChunk_RemainderFirst(last, remaining) ==
    [text |-> remaining \o last.text,
     token_count |-> CountTokens(tok, remaining \o last.text),
     chunk_id |-> last.chunk_id,
     start_char |-> last.start_char,
     end_char |-> last.end_char + TextLen(tok, remaining) + 1]

MergedChunk(last, remaining) ==
    [text |-> last.text \o remaining,
     token_count |-> CountTokens(tok, last.text \o remaining),
     chunk_id |-> last.chunk_id,
     start_char |-> last.start_char,
     end_char |-> last.end_char + TextLen(tok, remaining) + 1]

\* The merged chunk stored over the first chunk instead of the last.
ReplaceLast_First(cs, chunk) == [cs EXCEPT ![1] = chunk]

\* chunks[-1] = Chunk(...)
ReplaceLast(cs, chunk) == [cs EXCEPT ![Len(cs)] = chunk]

TailMerge ==
    /\ pc = "tail"
    /\ TailRuns
    /\ MergeFits(CountTokens(tok, CombinedText))
    /\ chunks' = ReplaceLast(chunks, MergedChunk(chunks[Len(chunks)],
                                                 current_chunk_sentences))
    /\ pc' = "done"
    /\ returned' = {chunks'}
    /\ UNCHANGED <<config, document, join_cost, tok, i, current_chunk_sentences,
                   current_tokens, char_position, overlap_sentences,
                   overlap_tokens, raised>>
    /\ UNCHANGED nonChunkerVars

TailNewChunk ==
    /\ pc = "tail"
    /\ TailRuns
    /\ ~MergeFits(CountTokens(tok, CombinedText))
    /\ chunks' = Append(chunks, NewChunk(tok, chunks, current_chunk_sentences,
                                         current_tokens, char_position))
    /\ pc' = "done"
    /\ returned' = {chunks'}
    /\ UNCHANGED <<config, document, join_cost, tok, i, current_chunk_sentences,
                   current_tokens, char_position, overlap_sentences,
                   overlap_tokens, raised>>
    /\ UNCHANGED nonChunkerVars

\* Nothing to resolve: return chunks as they are.
TailSkip ==
    /\ pc = "tail"
    /\ ~TailRuns
    /\ pc' = "done"
    /\ returned' = {chunks}
    /\ UNCHANGED <<config, document, join_cost, tok, i, chunks,
                   current_chunk_sentences, current_tokens, char_position,
                   overlap_sentences, overlap_tokens, raised>>
    /\ UNCHANGED nonChunkerVars

(***************************************************************************)
(* Failures of the collaborators.  create_chunks has no handler: an        *)
(* exception of split_into_sentences (which logs a LookupError and         *)
(* re-raises it) or of count_tokens leaves the function, and nothing is    *)
(* returned.  The chunks finalized so far stay in the abandoned frame.     *)
(***************************************************************************)
\* What a handler that swallowed the exception and returned the chunks
\* finalized so far would hand to the caller.
Propagate_ReturnPartial(exception) == [returned |-> {chunks}, raised |-> {}]

\* The exception propagates: nothing is returned.
Propagate(exception) == [returned |-> {}, raised |-> {exception}]

\* sentences = self.split_into_sentences(text) raises.
SegmenterFails ==
    /\ pc = "start"
    /\ pc' = "raised"
    /\ returned' = Propagate("SegmentationUnavailable").returned
    /\ raised' = Propagate("SegmentationUnavailable").raised
    /\ UNCHANGED <<config, document, join_cost, tok, i, chunks,
                   current_chunk_sentences, current_tokens, char_position,
                   overlap_sentences, overlap_tokens>>
    /\ UNCHANGED nonChunkerVars

\* The step about to be taken calls count_tokens: on the next sentence (every
\* iteration), on the joined text of an end-of-input finalization, or on the
\* combined text of tail resolution.
CallsTokenCounter ==
    \/ pc = "loop"
    \/ pc = "append" /\ EndOfInputFinalizes(i, current_tokens + tok[i])
    \/ pc = "tail" /\ TailRuns

\* A call of self.count_tokens raises.
TokenCounterFails ==
    /\ CallsTokenCounter
    /\ pc' = "raised"
    /\ returned' = Propagate("TokenCounterError").returned
    /\ raised' = Propagate("TokenCounterError").raised
    /\ UNCHANGED <<config, document, join_cost, tok, i, chunks,
                   current_chunk_sentences, current_tokens, char_position,
                   overlap_sentences, overlap_tokens>>
    /\ UNCHANGED nonChunkerVars

Next ==
    \/ NoSentences
    \/ EnterLoop
    \/ Finalize
    \/ AppendSentence
    \/ TailMerge
    \/ TailNewChunk
    \/ TailSkip
    \/ SegmenterFails
    \/ TokenCounterFails

Spec == Init /\ [][Next]_vars


(***************************************************************************)
(* The configuration loader (src/config.py).                               *)
(*                                                                         *)
(* environ is the process environment as from_env reads it, that is after  *)
(* load_dotenv; the three required variables are one field, TRUE when all  *)
(* three are set and non-empty.  RETRIEVAL_MIN_SCORE is in hundredths.     *)
(***************************************************************************)
MaxEnvValue == 3

DefaultTopK == 10
DefaultRetrievalMinScore == 70

ChunkEnvValues == {EnvUnset, EnvText} \cup {EnvInt(n) : n \in 1..MaxEnvValue}

EnvDomain(name) ==
    CASE name = "required_present" -> BOOLEAN
      [] name = "TOP_K" -> {EnvUnset, EnvInt(0)}
      [] name = "RETRIEVAL_MIN_SCORE" -> {EnvUnset, EnvInt(150)}
      [] OTHER -> ChunkEnvValues

EnvNames ==
    {"required_present", "CHUNK_MIN_TOKENS", "CHUNK_MAX_TOKENS",
     "CHUNK_OVERLAP_MIN", "CHUNK_OVERLAP_MAX", "TOP_K", "RETRIEVAL_MIN_SCORE"}

Environments ==
    [required_present : BOOLEAN,
     CHUNK_MIN_TOKENS : ChunkEnvValues, CHUNK_MAX_TOKENS : ChunkEnvValues,
     CHUNK_OVERLAP_MIN : ChunkEnvValues, CHUNK_OVERLAP_MAX : ChunkEnvValues,
     TOP_K : EnvDomain("TOP_K"),
     RETRIEVAL_MIN_SCORE : EnvDomain("RETRIEVAL_MIN_SCORE")]

\* os.getenv(name, default)
Getenv(env, name, default) ==
    IF env[name].kind = "unset" THEN EnvInt(default) ELSE env[name]

\* int(text) and float(text): a ValueError on text that is no number.
ParseRaises(v) == v.kind = "text"
ParseValue(v) == v.value

\* The variables from_env parses, with their defaults.
NumericSettings(env) ==
    [chunk_min_tokens |-> Getenv(env, "CHUNK_MIN_TOKENS", DefaultChunkMinTokens),
     chunk_max_tokens |-> Getenv(env, "CHUNK_MAX_TOKENS", DefaultChunkMaxTokens),
     chunk_overlap_min |-> Getenv(env, "CHUNK_OVERLAP_MIN", DefaultChunkOverlapMin),
     chunk_overlap_max |-> Getenv(env, "CHUNK_OVERLAP_MAX", DefaultChunkOverlapMax),
     top_k |-> Getenv(env, "TOP_K", DefaultTopK),
     retrieval_min_score |->
         Getenv(env, "RETRIEVAL_MIN_SCORE", DefaultRetrievalMinScore)]

ValidRetrieval(c) ==
    /\ ~(c.top_k <= 0)
    /\ 0 <= c.retrieval_min_score /\ c.retrieval_min_score <= 100

\* Config.from_env: what it returns and what it raises.
FromEnv(env) ==
    LET settings == NumericSettings(env)
        parsed == [f \in DOMAIN settings |-> ParseValue(settings[f])]
        rejected == [returned |-> {}, raised |-> {"ValueError"}]
    IN  IF ~env.required_present THEN rejected
        ELSE IF \E f \in DOMAIN settings : ParseRaises(settings[f]) THEN rejected
        ELSE IF ~ValidConfig(parsed) \/ ~ValidRetrieval(parsed) THEN rejected
        ELSE [returned |-> {parsed}, raised |-> {}]

LoaderInit ==
    /\ environ \in Environments
    /\ global_config = {}
    /\ last_call = NoCall

\* The environment changes between two calls: one variable is set or unset.
SetEnv ==
    /\ \E name \in EnvNames : \E v \in EnvDomain(name) :
          /\ v # environ[name]
          /\ environ' = [environ EXCEPT ![name] = v]
    /\ last_call' = NoCall
    /\ UNCHANGED global_config
    /\ UNCHANGED <<chunkerVars, retryVars, retrieverVars>>

\* Config instances are told apart by a tag: the instance a load constructs
\* differs from the one stored before it.
FreshInstance ==
    IF global_config = {} THEN 0
    ELSE 1 - (CHOOSE c \in global_config : TRUE).instance

Tagged(c, n) ==
    [f \in DOMAIN c \cup {"instance"} |-> IF f = "instance" THEN n ELSE c[f]]

\* A call of Config.from_env in the current environment.
Load ==
    LET r == FromEnv(environ)
    IN  [returned |-> {Tagged(c, FreshInstance) : c \in r.returned},
         raised |-> r.raised]

\* An assignment to _config that also happens when the load raised.
Stored_ClearedOnFailure(current, r) == r.returned

\* _config = Config.from_env(...): no assignment when from_env raises
Stored(current, r) == IF r.raised # {} THEN current ELSE r.returned

GetConfig ==
    /\ IF global_config = {}
       THEN LET r == Load
            IN  /\ global_config' = Stored(global_config, r)
                /\ last_call' = [op |-> "get_config", loaded |-> TRUE,
                                 returned |-> r.returned, raised |-> r.raised]
       ELSE /\ UNCHANGED global_config
            /\ last_call' = [op |-> "get_config", loaded |-> FALSE,
                             returned |-> global_config, raised |-> {}]
    /\ UNCHANGED environ
    /\ UNCHANGED <<chunkerVars, retryVars, retrieverVars>>

ReloadConfig ==
    /\ LET r == Load
       IN  /\ global_config' = Stored(global_config, r)
           /\ last_call' = [op |-> "reload_config", loaded |-> TRUE,
                            returned |-> r.returned, raised |-> r.raised]
    /\ UNCHANGED environ
    /\ UNCHANGED <<chunkerVars, retryVars, retrieverVars>>

\* The chunker at rest.
ChunkerIdle ==
    /\ config = DefaultConfig
    /\ document = [len |-> 0, tokens |-> {1}]
    /\ join_cost = 0
    /\ tok = <<>>
    /\ i = 1
    /\ chunks = <<>>
    /\ current_chunk_sentences = <<>>
    /\ current_tokens = 0
    /\ char_position = 0
    /\ overlap_sentences = <<>>
    /\ overlap_tokens = 0
    /\ pc = "idle"
    /\ returned = {}
    /\ raised = {}

ConfigInit == LoaderInit /\ ChunkerIdle /\ RetryIdle /\ RetrieverIdle

ConfigNext ==
    \/ SetEnv
    \/ GetConfig
    \/ ReloadConfig

ConfigSpec == ConfigInit /\ [][ConfigNext]_vars

(***************************************************************************)
(* The retried remote calls: tenacity's retry(stop=stop_after_attempt(3),  *)
(* wait=..., reraise=True) around _call_openai, _embed_texts,              *)
(* _upsert_vectors and _query_pinecone.  An attempt is one run of the      *)
(* decorated function's body; the wait between two attempts takes no step. *)
(***************************************************************************)
MaxAttempts == 3

RetriedFunctions ==
    {"_call_openai", "_embed_texts", "_upsert_vectors", "_query_pinecone"}

\* What a remote call may raise: instances of Exception, which the retry
\* predicate accepts, and a BaseException that is no Exception.
Exceptions == {"APIError", "Timeout"}
NotExceptions == {"KeyboardInterrupt"}

\* What a remote call may return, as the body hands it on.
Results == {"response_a", "response_b"}

\* retry_if_exception_type(Exception), which is also the default predicate
Retryable(e) == e \in Exceptions

\* A stop condition that allows one attempt more.
StopAfterAttempt_OneMore(n) == n > MaxAttempts

\* stop_after_attempt(MaxAttempts)
StopAfterAttempt(n) == n >= MaxAttempts

\* reraise=True: the exception of the last attempt, not a RetryError
Reraise(log) == log[Len(log)].value

\* _embed_texts returns [] before any remote call when texts is empty.
ReturnsWithoutCall == retry_fn = "_embed_texts" /\ texts_empty

RetryInit ==
    /\ retry_fn \in RetriedFunctions
    /\ texts_empty \in (IF retry_fn = "_embed_texts" THEN BOOLEAN ELSE {FALSE})
    /\ attempt_log = <<>>
    /\ attempt_number = 0
    /\ retry_pc = "attempt"
    /\ retry_returned = {}
    /\ retry_raised = {}

EmbedNothing ==
    /\ retry_pc = "attempt"
    /\ ReturnsWithoutCall
    /\ attempt_number' = attempt_number + 1
    /\ attempt_log' = Append(attempt_log, [kind |-> "returned", value |-> "[]"])
    /\ retry_pc' = "returned"
    /\ retry_returned' = {"[]"}
    /\ UNCHANGED <<retry_fn, texts_empty, retry_raised>>
    /\ UNCHANGED <<chunkerVars, loaderVars, retrieverVars>>

AttemptReturns ==
    /\ retry_pc = "attempt"
    /\ ~ReturnsWithoutCall
    /\ \E r \in Results :
          /\ attempt_log' = Append(attempt_log, [kind |-> "returned", value |-> r])
          /\ retry_returned' = {r}
    /\ attempt_number' = attempt_number + 1
    /\ retry_pc' = "returned"
    /\ UNCHANGED <<retry_fn, texts_empty, retry_raised>>
    /\ UNCHANGED <<chunkerVars, loaderVars, retrieverVars>>

AttemptRaises ==
    /\ retry_pc = "attempt"
    /\ ~ReturnsWithoutCall
    /\ \E e \in Exceptions \cup NotExceptions :
          LET log == Append(attempt_log, [kind |-> "raised", value |-> e])
          IN  /\ attempt_log' = log
              /\ IF ~Retryable(e)
                 THEN retry_pc' = "raised" /\ retry_raised' = {e}
                 ELSE IF StopAfterAttempt(attempt_number + 1)
                      THEN retry_pc' = "raised" /\ retry_raised' = {Reraise(log)}
                      ELSE retry_pc' = "attempt" /\ UNCHANGED retry_raised
    /\ attempt_number' = attempt_number + 1
    /\ UNCHANGED <<retry_fn, texts_empty, retry_returned>>
    /\ UNCHANGED <<chunkerVars, loaderVars, retrieverVars>>

RetryNext ==
    \/ EmbedNothing
    \/ AttemptReturns
    \/ AttemptRaises

RetrySpecInit == RetryInit /\ ChunkerIdle /\ LoaderIdle /\ RetrieverIdle

RetrySpec == RetrySpecInit /\ [][RetryNext]_vars

(***************************************************************************)
(* VectorRetriever.retrieve (src/online/retrieval.py).  Scores and         *)
(* thresholds are in hundredths.  A match's id is its position in the      *)
(* index's answer.  top_k only goes into the query, whose answer is any    *)
(* sequence of matches.                                                    *)
(***************************************************************************)
MaxMatches == 3

EmbeddingDimension == 3072

EmbeddingLengths == {0, 1536, EmbeddingDimension}

\* match['metadata']: the keys it has, and the text under 'text' if any
Metadatas ==
    {[keys |-> {"text"}, text |-> "chunk text"],
     [keys |-> {"text"}, text |-> ""],
     [keys |-> {}, text |-> ""]}

\* metadata.get('text', default)
MetadataGetText(metadata, default) ==
    IF "text" \in metadata.keys THEN metadata.text ELSE default

Scores == {60, 70, 95}

MatchBodies == [score : Scores, metadata : Metadatas]

IndexMatches(bodies) ==
    [j \in 1..Len(bodies) |->
        [id |-> j, score |-> bodies[j].score, metadata |-> bodies[j].metadata]]

IndexResponses ==
    {[ok |-> FALSE, matches |-> <<>>]}
        \cup {[ok |-> TRUE, matches |-> IndexMatches(bodies)] :
                bodies \in UNION {[1..n -> MatchBodies] : n \in 0..MaxMatches}}

\* self.min_score, from the configuration
ConfiguredMinScore == DefaultRetrievalMinScore

\* threshold = min_score if min_score is not None else self.min_score
Threshold ==
    IF min_score # {} THEN CHOOSE v \in min_score : TRUE ELSE ConfiguredMinScore

FilterByScore(matches, threshold) ==
    SelectSeq(matches, LAMBDA m : m.score >= threshold)

\* _parse_matches: a match without text is skipped
ParseMatches(matches) ==
    LET kept == SelectSeq(matches, LAMBDA m : MetadataGetText(m.metadata, "") # "")
    IN  [j \in 1..Len(kept) |->
            [chunk_id |-> kept[j].id,
             text |-> MetadataGetText(kept[j].metadata, ""),
             score |-> kept[j].score,
             metadata |-> kept[j].metadata]]

EmbeddingValid ==
    /\ query_embedding # 0
    /\ ~(query_embedding # EmbeddingDimension)

RetrieverInit ==
    /\ query_embedding \in EmbeddingLengths
    /\ min_score \in {{}, {0}, {95}}
    /\ index_response \in IndexResponses
    /\ retrieve_pc = "called"
    /\ retrieve_returned = {}
    /\ retrieve_raised = {}

RetrieveRejectsEmbedding ==
    /\ retrieve_pc = "called"
    /\ ~EmbeddingValid
    /\ retrieve_pc' = "raised"
    /\ retrieve_raised' = {"ValueError"}
    /\ UNCHANGED <<query_embedding, min_score, index_response, retrieve_returned>>
    /\ UNCHANGED <<chunkerVars, loaderVars, retryVars>>

\* _query_pinecone raised after its retries
RetrieveQueryFails ==
    /\ retrieve_pc = "called"
    /\ EmbeddingValid
    /\ ~index_response.ok
    /\ retrieve_pc' = "raised"
    /\ retrieve_raised' = {"QueryError"}
    /\ UNCHANGED <<query_embedding, min_score, index_response, retrieve_returned>>
    /\ UNCHANGED <<chunkerVars, loaderVars, retryVars>>

RetrieveNoMatches ==
    /\ retrieve_pc = "called"
    /\ EmbeddingValid
    /\ index_response.ok
    /\ index_response.matches = <<>>
    /\ retrieve_pc' = "returned"
    /\ retrieve_returned' = {<<>>}
    /\ UNCHANGED <<query_embedding, min_score, index_response, retrieve_raised>>
    /\ UNCHANGED <<chunkerVars, loaderVars, retryVars>>

RetrieveAllFiltered ==
    /\ retrieve_pc = "called"
    /\ EmbeddingValid
    /\ index_response.ok
    /\ index_response.matches # <<>>
    /\ FilterByScore(index_response.matches, Threshold) = <<>>
    /\ retrieve_pc' = "returned"
    /\ retrieve_returned' = {<<>>}
    /\ UNCHANGED <<query_embedding, min_score, index_response, retrieve_raised>>
    /\ UNCHANGED <<chunkerVars, loaderVars, retryVars>>

\* Lines 223-232: the results are parsed, then the log line reads results[0]
\* and results[-1], then the results are returned.
RetrieveParses ==
    /\ retrieve_pc = "called"
    /\ EmbeddingValid
    /\ index_response.ok
    /\ FilterByScore(index_response.matches, Threshold) # <<>>
    /\ LET results == ParseMatches(FilterByScore(index_response.matches, Threshold))
       IN  IF results = <<>>
           THEN /\ retrieve_pc' = "raised"
                /\ retrieve_raised' = {"IndexError"}
                /\ UNCHANGED retrieve_returned
           ELSE /\ retrieve_pc' = "returned"
                /\ retrieve_returned' = {results}
                /\ UNCHANGED retrieve_raised
    /\ UNCHANGED <<query_embedding, min_score, index_response>>
    /\ UNCHANGED <<chunkerVars, loaderVars, retryVars>>

RetrieveNext ==
    \/ RetrieveRejectsEmbedding
    \/ RetrieveQueryFails
    \/ RetrieveNoMatches
    \/ RetrieveAllFiltered
    \/ RetrieveParses

RetrieveSpecInit == RetrieverInit /\ ChunkerIdle /\ LoaderIdle /\ RetryIdle

RetrieveSpec == RetrieveSpecInit /\ [][RetrieveNext]_vars

(***************************************************************************)
(* Vocabulary of the claims.                                               *)
(***************************************************************************)
Range(s) == {s[k] : k \in 1..Len(s)}

Done == pc = "done"

LastChunk == chunks[Len(chunks)]

\* The end-of-input finalization fired: the last sentence was consumed with
\* the running sum at chunk_min_tokens or more (the sum does not change
\* after the loop).
EndFinalizationFired ==
    /\ pc \in {"tail", "done"}
    /\ document.len > 0
    /\ current_tokens >= config.chunk_min_tokens

\* A text that joins a contiguous run of sentence positions, each once.
ContiguousRun(text) ==
    /\ text # <<>>
    /\ \A k \in 1..(Len(text) - 1) : text[k + 1] = text[k] + 1

\* s is a suffix of t.
IsSuffix(s, t) ==
    /\ Len(s) <= Len(t)
    /\ \A k \in 1..Len(s) : s[k] = t[Len(t) - Len(s) + k]

\* The last chunk was replaced by a merge: its text is longer than the buffer.
LastWasMerged ==
    /\ Done
    /\ Len(chunks) > 0
    /\ Len(LastChunk.text) > Len(current_chunk_sentences)

(***************************************************************************)
(* C1  The chunk_id values, read in output order, are 0, 1, ..., n-1:      *)
(* the chunk at output position k (counting from 0) holds chunk_id k,      *)
(* however the run ended.                                                  *)
(***************************************************************************)
C1_ChunkIdsContiguous ==
    \A k \in 1..Len(chunks) : chunks[k].chunk_id = k - 1

C1_Witness == Done /\ Len(chunks) >= 3

(***************************************************************************)
(* C2  Every input sentence position appears in at least one chunk of the  *)
(* returned sequence.                                                      *)
(***************************************************************************)
C2_EverySentenceCovered ==
    Done => \A p \in 1..document.len :
                \E k \in 1..Len(chunks) : p \in Range(chunks[k].text)

(***************************************************************************)
(* C3  When the end-of-input finalization fired, tail resolution does not  *)
(* act: the step that leaves the tail phase changes no chunk and adds      *)
(* none.                                                                   *)
(***************************************************************************)
C3_NoTailAfterEndFinalization ==
    [][(pc = "tail" /\ EndFinalizationFired) => chunks' = chunks]_vars

(***************************************************************************)
(* C4  Every chunk's text joins a contiguous run of input sentences in     *)
(* document order, each position at most once; stated here for the runs    *)
(* in which the end-of-input finalization did not fire, which include the  *)
(* tail merge after an accepted overlap.                                   *)
(***************************************************************************)
C4_ChunksAreContiguousRuns ==
    (Done /\ ~EndFinalizationFired) =>
        \A k \in 1..Len(chunks) : ContiguousRun(chunks[k].text)

(***************************************************************************)
(* C5  When no sentence has more than chunk_max_tokens tokens, every chunk *)
(* but the last has a per-sentence token sum of at most chunk_max_tokens,  *)
(* and the last of at most 1.2 * chunk_max_tokens; stated here for the     *)
(* runs in which the end-of-input finalization did not fire.               *)
(***************************************************************************)
C5_TokenBound ==
    (/\ Done
     /\ ~EndFinalizationFired
     /\ \A p \in 1..Len(tok) : tok[p] <= config.chunk_max_tokens) =>
        \A k \in 1..Len(chunks) :
            IF k < Len(chunks)
            THEN SumTok(tok, chunks[k].text) <= config.chunk_max_tokens
            ELSE 5 * SumTok(tok, chunks[k].text) <= 6 * config.chunk_max_tokens

(***************************************************************************)
(* C6  Right after a budget-overflow finalization: if the per-sentence sum *)
(* of the seed is at least chunk_overlap_min, the seed is the next buffer, *)
(* its sum lies in [chunk_overlap_min, chunk_overlap_max] and is the       *)
(* running sum, and its sentences are a suffix of the finalized chunk in   *)
(* document order; if the sum is below chunk_overlap_min, the next buffer  *)
(* is empty and the running sum is 0.                                      *)
(***************************************************************************)
C6_OverlapSeedBounded ==
    pc = "append" =>
        LET seed_sum == SumTok(tok, overlap_sentences) IN
        IF seed_sum >= config.chunk_overlap_min
        THEN /\ current_chunk_sentences = overlap_sentences
             /\ current_tokens = seed_sum
             /\ seed_sum <= config.chunk_overlap_max
             /\ IsSuffix(overlap_sentences, LastChunk.text)
             /\ \A k \in 1..(Len(overlap_sentences) - 1) :
                    overlap_sentences[k] < overlap_sentences[k + 1]
        ELSE /\ current_chunk_sentences = <<>>
             /\ current_tokens = 0

C6_Witness ==
    /\ pc = "append"
    /\ Len(current_chunk_sentences) >= 2
    /\ current_tokens = config.chunk_overlap_max

(***************************************************************************)
(* C7  Every chunk's stored token_count is the Token Counter's result on   *)
(* the chunk's text as it stands, also after a merge.                      *)
(***************************************************************************)
C7_TokenCountRecomputed ==
    \A k \in 1..Len(chunks) :
        chunks[k].token_count = CountTokens(tok, chunks[k].text)

C7_Witness ==
    /\ LastWasMerged
    /\ ~EndFinalizationFired
    /\ LastChunk.token_count # SumTok(tok, LastChunk.text)

(***************************************************************************)
(* C8  A document of exactly one sentence, of more than chunk_max_tokens   *)
(* tokens, yields exactly one chunk: its text is the sentence and its      *)
(* token_count the sentence's.                                             *)
(***************************************************************************)
C8_SingleOversizedSentence ==
    (Done /\ document.len = 1 /\ tok[1] > config.chunk_max_tokens) =>
        /\ Len(chunks) = 1
        /\ chunks[1].text = <<1>>
        /\ chunks[1].token_count = tok[1]

(***************************************************************************)
(* C9  The scenario of 20 sentences of 50 tokens each under the default    *)
(* configuration, with additive token counts.                              *)
(***************************************************************************)
Scenario20x50 ==
    /\ config = DefaultConfig
    /\ document = [len |-> 20, tokens |-> {50}]
    /\ join_cost = 0

\* The number of leading sentences of chunk k + 1 that chunk k also holds.
SharedSentences(k) ==
    Cardinality(Range(chunks[k].text) \cap Range(chunks[k + 1].text))

\* C9 as stated: every chunk has 8 sentences and 400 tokens, consecutive
\* chunks share 2 to 3 sentences, and the chunk_ids are 0, 1, 2, ...
C9_AsStated ==
    (Done /\ Scenario20x50) =>
        /\ \A k \in 1..Len(chunks) :
              /\ Len(chunks[k].text) = 8
              /\ chunks[k].token_count = 400
              /\ chunks[k].chunk_id = k - 1
        /\ \A k \in 1..(Len(chunks) - 1) : SharedSentences(k) \in 2..3

\* C9 amended: the output is two chunks, the first 16 sentences (800 tokens)
\* and the last 7 sentences (350 tokens), sharing 3 sentences (150 tokens),
\* with chunk_ids 0, 1.
C9_Scenario20x50 ==
    (Done /\ Scenario20x50) =>
        /\ Len(chunks) = 2
        /\ chunks[1].text = [p \in 1..16 |-> p]
        /\ chunks[1].token_count = 800
        /\ chunks[1].chunk_id = 0
        /\ chunks[2].text = [p \in 1..7 |-> p + 13]
        /\ chunks[2].token_count = 350
        /\ chunks[2].chunk_id = 1
        /\ SharedSentences(1) = 3
        /\ SumTok(tok, <<14, 15, 16>>) = 150

C9_Witness == Done /\ Scenario20x50 /\ Len(chunks) = 2

(***************************************************************************)
(* C10  The step of tail resolution that completes (the token counter      *)
(* does not fail), with last chunk C and leftover sentences L: if the      *)
(* token count of C.text + " " + join(L) is at most                        *)
(* 1.2 * chunk_max_tokens (boundary included), the number of chunks stays  *)
(* and the last chunk gets C's chunk_id and start_char, the combined text  *)
(* and its recomputed token count; otherwise exactly one chunk is added,   *)
(* with text join(L) and chunk_id the number of chunks before it, and C    *)
(* stays as it was.  The chunks before C stay either way.                  *)
(***************************************************************************)
C10_TailResolution ==
    [][(/\ pc = "tail" /\ current_chunk_sentences # <<>> /\ Len(chunks) > 0
        /\ pc' = "done") =>
        LET n == Len(chunks)
            C == chunks[n]
            L == current_chunk_sentences
            combined == CountTokens(tok, C.text \o L)
        IN  IF 5 * combined <= 6 * config.chunk_max_tokens
            THEN /\ Len(chunks') = n
                 /\ \A k \in 1..(n - 1) : chunks'[k] = chunks[k]
                 /\ chunks'[n].chunk_id = C.chunk_id
                 /\ chunks'[n].start_char = C.start_char
                 /\ chunks'[n].text = C.text \o L
                 /\ chunks'[n].token_count = combined
            ELSE /\ Len(chunks') = n + 1
                 /\ \A k \in 1..n : chunks'[k] = chunks[k]
                 /\ chunks'[n + 1].text = L
                 /\ chunks'[n + 1].chunk_id = n
      ]_vars

\* A merge exactly at the boundary.
C10_Witness ==
    /\ LastWasMerged
    /\ ~EndFinalizationFired
    /\ 5 * LastChunk.token_count = 6 * config.chunk_max_tokens

(***************************************************************************)
(* C15  A load (a call of from_env by get_config or reload_config) made in *)
(* an environment whose chunking bounds parse and have                     *)
(* chunk_min_tokens >= chunk_max_tokens, chunk_overlap_min >=              *)
(* chunk_overlap_max or chunk_overlap_max >= chunk_min_tokens raises       *)
(* ValueError, returns no Config and leaves the stored configuration as it *)
(* was; and every Config stored or returned has                            *)
(* overlap_min < overlap_max < min_tokens < max_tokens.                    *)
(***************************************************************************)
BoundsOrdered(c) ==
    /\ c.chunk_overlap_min < c.chunk_overlap_max
    /\ c.chunk_overlap_max < c.chunk_min_tokens
    /\ c.chunk_min_tokens < c.chunk_max_tokens

\* The two settings parse and the first is not below the second.
NotBelow(env, a, b) ==
    LET settings == NumericSettings(env)
    IN  /\ settings[a].kind = "int"
        /\ settings[b].kind = "int"
        /\ settings[a].value >= settings[b].value

BadBounds(env) ==
    \/ NotBelow(env, "chunk_min_tokens", "chunk_max_tokens")
    \/ NotBelow(env, "chunk_overlap_min", "chunk_overlap_max")
    \/ NotBelow(env, "chunk_overlap_max", "chunk_min_tokens")

C15_LoadRejectsBadBounds ==
    /\ [](/\ \A c \in global_config \cup last_call.returned : BoundsOrdered(c)
          /\ (last_call.loaded /\ BadBounds(environ)) =>
                (last_call.raised = {"ValueError"} /\ last_call.returned = {}))
    /\ [][(last_call'.loaded /\ environ' = environ /\ BadBounds(environ)) =>
              global_config' = global_config]_vars

\* reload_config was called with a configuration stored, in an environment
\* where everything is in order except chunk_overlap_max >= chunk_min_tokens.
C15_Witness ==
    /\ last_call.op = "reload_config"
    /\ last_call.raised = {"ValueError"}
    /\ global_config # {}
    /\ environ.required_present
    /\ environ.TOP_K = EnvUnset
    /\ environ.RETRIEVAL_MIN_SCORE = EnvUnset
    /\ NotBelow(environ, "chunk_overlap_max", "chunk_min_tokens")
    /\ ~NotBelow(environ, "chunk_min_tokens", "chunk_max_tokens")
    /\ ~NotBelow(environ, "chunk_overlap_min", "chunk_overlap_max")
    /\ \A f \in DOMAIN NumericSettings(environ) :
          ~ParseRaises(NumericSettings(environ)[f])

(***************************************************************************)
(* C11  The chunk sequence only grows by appending: a step leaves every    *)
(* chunk in place and may add chunks at the end; the one exception is the  *)
(* step of tail resolution, taken after all sentences have been consumed   *)
(* and ending the run, which may replace the chunk at the last position    *)
(* and leaves the others.                                                  *)
(***************************************************************************)
C11_ChunksOnlyGrow ==
    [][\/ /\ Len(chunks') >= Len(chunks)
          /\ \A k \in 1..Len(chunks) : chunks'[k] = chunks[k]
       \/ /\ pc = "tail"
          /\ i > document.len
          /\ pc' = "done"
          /\ Len(chunks') = Len(chunks)
          /\ \A k \in 1..(Len(chunks) - 1) : chunks'[k] = chunks[k]
      ]_vars

C11_Witness ==
    /\ LastWasMerged
    /\ ~EndFinalizationFired
    /\ Len(chunks) >= 2

(***************************************************************************)
(* C12  Each sentence position appears in at most two chunks of the        *)
(* output, and in consecutive chunks when in two; stated here for the runs *)
(* in which the end-of-input finalization did not fire.                    *)
(***************************************************************************)
ChunksHolding(p) == {k \in 1..Len(chunks) : p \in Range(chunks[k].text)}

C12_AtMostTwoConsecutiveChunks ==
    (Done /\ ~EndFinalizationFired) =>
        \A p \in 1..document.len :
            /\ Cardinality(ChunksHolding(p)) <= 2
            /\ \A a, b \in ChunksHolding(p) : a - b \in {-1, 0, 1}

(***************************************************************************)
(* C13  Every chunk of the output that is not the last and holds no        *)
(* sentence of more than chunk_max_tokens tokens has a per-sentence token  *)
(* sum within [chunk_min_tokens, chunk_max_tokens]; stated here for the    *)
(* runs in which the end-of-input finalization did not fire.               *)
(***************************************************************************)
C13_ChunksWithinBudget ==
    (Done /\ ~EndFinalizationFired) =>
        \A k \in 1..(Len(chunks) - 1) :
            (\A p \in Range(chunks[k].text) : tok[p] <= config.chunk_max_tokens)
                => /\ SumTok(tok, chunks[k].text) >= config.chunk_min_tokens
                   /\ SumTok(tok, chunks[k].text) <= config.chunk_max_tokens

(***************************************************************************)
(* C14  No chunk has an empty text, in any state of any run, and a         *)
(* document of zero sentences returns the empty sequence and raises        *)
(* nothing.                                                                *)
(***************************************************************************)
C14_NoEmptyChunk ==
    /\ \A k \in 1..Len(chunks) : chunks[k].text # <<>>
    /\ (Done /\ document.len = 0) => (returned = {<<>>} /\ raised = {})

\* A first sentence of more than chunk_max_tokens tokens went through the
\* budget test with the buffer empty, and the run made two chunks or more.
C14_Witness ==
    /\ Done
    /\ Len(chunks) >= 2
    /\ tok[1] > config.chunk_max_tokens
    /\ ~EndFinalizationFired

(***************************************************************************)
(* C16  When the Sentence Segmenter or the Token Counter fails,            *)
(* create_chunks ends with that failure and returns nothing, whatever      *)
(* chunks it had finalized; it takes no step after the failure (no         *)
(* retry); and it raises nothing otherwise.                                *)
(***************************************************************************)
C16_FailuresPropagate ==
    [][/\ pc # "raised"
       /\ pc' = "raised" =>
            /\ returned' = {}
            /\ raised' = {IF pc = "start" THEN "SegmentationUnavailable"
                                          ELSE "TokenCounterError"}
       /\ pc' # "raised" => raised' = {}
      ]_vars

\* The Token Counter failed after two chunks had been finalized.
C16_Witness ==
    /\ pc = "raised"
    /\ Len(chunks) >= 2
    /\ returned = {}

(***************************************************************************)
(* C17  An invocation of a retried function makes at most 3 attempts; it   *)
(* makes no attempt after one that returned, and returns what that attempt *)
(* returned; when 3 attempts all raised, it raises the exception of the    *)
(* third; whenever it raises, it raises the exception of its last attempt. *)
(***************************************************************************)
C17_AtMostThreeAttempts ==
    LET n == Len(attempt_log)
    IN  /\ n <= 3
        /\ attempt_number = n
        /\ \A j \in 1..(n - 1) : attempt_log[j].kind = "raised"
        /\ (n > 0 /\ attempt_log[n].kind = "returned") =>
              /\ retry_pc = "returned"
              /\ retry_returned = {attempt_log[n].value}
              /\ retry_raised = {}
        /\ (n = 3 /\ attempt_log[n].kind = "raised") =>
              /\ retry_pc = "raised"
              /\ retry_raised = {attempt_log[3].value}
              /\ retry_returned = {}
        /\ retry_pc = "raised" => retry_raised = {attempt_log[n].value}
        /\ retry_pc = "attempt" => (retry_returned = {} /\ retry_raised = {})

\* Two attempts raised and the third returned.
C17_Witness ==
    /\ Len(attempt_log) = 3
    /\ attempt_log[1].kind = "raised"
    /\ attempt_log[2].kind = "raised"
    /\ attempt_log[1].value # attempt_log[2].value
    /\ attempt_log[3].kind = "returned"
    /\ retry_pc = "returned"

(***************************************************************************)
(* C18  With a query embedding of 3072 values and an index query that      *)
(* succeeded, retrieve raises nothing and returns exactly the matches      *)
(* whose score is at least the effective threshold (the min_score argument *)
(* if given, else the configured one) and whose metadata text is not       *)
(* empty, in the order of the index's answer.                              *)
(***************************************************************************)
ExpectedResults ==
    LET threshold == IF min_score = {} THEN ConfiguredMinScore
                     ELSE CHOOSE v \in min_score : TRUE
        wanted == SelectSeq(index_response.matches,
                            LAMBDA m : /\ m.score >= threshold
                                       /\ "text" \in m.metadata.keys
                                       /\ m.metadata.text # "")
    IN  [j \in 1..Len(wanted) |->
            [chunk_id |-> wanted[j].id, text |-> wanted[j].metadata.text,
             score |-> wanted[j].score, metadata |-> wanted[j].metadata]]

C18_RetrieveReturnsPassingMatches ==
    (/\ retrieve_pc \in {"returned", "raised"}
     /\ query_embedding = EmbeddingDimension
     /\ index_response.ok) =>
        /\ retrieve_raised = {}
        /\ retrieve_returned = {ExpectedResults}

(***************************************************************************)
(* C19  Right after a finalization, the overlap seed computed (accepted    *)
(* or not) is the longest suffix of the finalized chunk's sentences whose  *)
(* per-sentence token sum is at most chunk_overlap_max: it is a suffix,    *)
(* its sum fits, the suffix one sentence longer does not fit, and it is    *)
(* empty when the chunk's last sentence alone exceeds chunk_overlap_max.   *)
(***************************************************************************)
SuffixOf(text, n) == SubSeq(text, Len(text) - n + 1, Len(text))

C19_SeedIsLongestSuffix ==
    pc = "append" =>
        LET finalized == LastChunk.text
            n == Len(overlap_sentences)
        IN  /\ n <= Len(finalized)
            /\ overlap_sentences = SuffixOf(finalized, n)
            /\ SumTok(tok, overlap_sentences) <= config.chunk_overlap_max
            /\ n < Len(finalized) =>
                  SumTok(tok, SuffixOf(finalized, n + 1))
                      > config.chunk_overlap_max
            /\ tok[finalized[Len(finalized)]] > config.chunk_overlap_max
                  => overlap_sentences = <<>>

\* The walk stopped at a sentence that did not fit although an earlier,
\* smaller sentence of the chunk would have fitted.
C19_Witness ==
    /\ pc = "append"
    /\ overlap_sentences # <<>>
    /\ \E j \in 1..(Len(LastChunk.text) - Len(overlap_sentences) - 1) :
          tok[LastChunk.text[j]] + SumTok(tok, overlap_sentences)
              <= config.chunk_overlap_max

(***************************************************************************)
(* C20  An iteration finalizes a chunk before appending its sentence       *)
(* exactly when the buffer is non-empty and running_sum + t exceeds        *)
(* chunk_max_tokens (strictly); the chunk is then the buffer, so the       *)
(* per-sentence sum of the chunk plus the token count of the sentence not  *)
(* yet appended exceeds chunk_max_tokens.                                  *)
(***************************************************************************)
C20_GreedyFinalization ==
    [][(pc = "loop" /\ pc' # "raised") =>
          /\ (pc' = "append")
                <=> /\ current_chunk_sentences # <<>>
                    /\ current_tokens + tok'[i] > config.chunk_max_tokens
          /\ pc' = "append" =>
                /\ Len(chunks') = Len(chunks) + 1
                /\ chunks'[Len(chunks')].text = current_chunk_sentences
                /\ SumTok(tok', chunks'[Len(chunks')].text) + tok'[i]
                      > config.chunk_max_tokens
          /\ pc' # "append" =>
                current_chunk_sentences' = Append(current_chunk_sentences, i)
      ]_vars

\* A sentence was appended that brought the running sum to chunk_max_tokens
\* exactly, without a finalization.
C20_Witness ==
    /\ pc = "loop"
    /\ chunks = <<>>
    /\ Len(current_chunk_sentences) >= 2
    /\ current_tokens = config.chunk_max_tokens

(***************************************************************************)
(* C21  For every pair of consecutive chunks of the output, start_char of  *)
(* the later chunk is end_char of the earlier chunk plus 1: every          *)
(* finalization, the end-of-input one included, advances the cursor by     *)
(* the length of the text plus 1.                                          *)
(***************************************************************************)
C21_OffsetsChained ==
    Done =>
        \A k \in 1..(Len(chunks) - 1) :
            chunks[k + 1].start_char = chunks[k].end_char + 1

(***************************************************************************)
(* C22  Between the iterations of the sentence loop, right after a         *)
(* finalization (seed accepted or declined) and after the loop, the        *)
(* running token sum is the sum of the per-sentence token counts of the    *)
(* sentences in the buffer.                                                *)
(***************************************************************************)
C22_RunningSumIsBufferSum ==
    pc \in {"loop", "append", "tail", "done"} =>
        current_tokens = SumTok(tok, current_chunk_sentences)

\* An iteration has appended a sentence to an accepted seed.
C22_Witness ==
    /\ pc = "loop"
    /\ Len(chunks) >= 1
    /\ overlap_sentences # <<>>
    /\ OverlapAccepted(overlap_tokens)
    /\ Len(current_chunk_sentences) = Len(overlap_sentences) + 1
    /\ current_tokens > overlap_tokens

(***************************************************************************)
(* C23  The output of a run that returns is the empty sequence if and only *)
(* if the per-sentence token counts of the whole document sum to less than *)
(* chunk_min_tokens.                                                       *)
(***************************************************************************)
DocumentTokens == SumTok(tok, [p \in 1..document.len |-> p])

C23_EmptyIffBelowMinimum ==
    Done =>
        /\ returned = {chunks}
        /\ (chunks = <<>>) <=> (DocumentTokens < config.chunk_min_tokens)

\* A document of several sentences whose counts sum to chunk_min_tokens - 1
\* was dropped.
C23_Witness ==
    /\ Done
    /\ document.len >= 2
    /\ DocumentTokens = config.chunk_min_tokens - 1
    /\ returned = {<<>>}

(***************************************************************************)
(* C24  Every chunk of the output holds at least one sentence position     *)
(* that no earlier chunk of the output holds.                              *)
(***************************************************************************)
C24_EveryChunkBringsANewSentence ==
    Done =>
        \A k \in 1..Len(chunks) :
            \E p \in Range(chunks[k].text) :
                \A j \in 1..(k - 1) : p \notin Range(chunks[j].text)

(***************************************************************************)
(* C25  An accepted overlap seed is a proper suffix of the chunk just      *)
(* finalized (shorter than it), and no chunk of the output is wholly       *)
(* contained in the chunk that follows it; stated here for the runs in     *)
(* which the end-of-input finalization did not fire.                       *)
(***************************************************************************)
C25_SeedIsProperSuffix ==
    /\ (pc = "append" /\ OverlapAccepted(overlap_tokens)) =>
          Len(overlap_sentences) < Len(LastChunk.text)
    /\ (Done /\ ~EndFinalizationFired) =>
          \A k \in 1..(Len(chunks) - 1) :
              ~(Range(chunks[k].text) \subseteq Range(chunks[k + 1].text))

(***************************************************************************)
(* C26  As long as no sentence counted so far has more than                *)
(* chunk_max_tokens tokens, the running token sum is at most               *)
(* chunk_max_tokens + chunk_overlap_max, and so is the per-sentence token  *)
(* sum of every chunk finalized in the sentence loop.                      *)
(***************************************************************************)
C26_RunningSumBounded ==
    (/\ pc \in {"loop", "append", "tail"}
     /\ \A p \in DOMAIN tok : tok[p] <= config.chunk_max_tokens) =>
        /\ current_tokens <= config.chunk_max_tokens + config.chunk_overlap_max
        /\ \A k \in 1..Len(chunks) :
              SumTok(tok, chunks[k].text)
                  <= config.chunk_max_tokens + config.chunk_overlap_max

\* The bound is met: a chunk finalized in the loop has exactly
\* chunk_max_tokens + chunk_overlap_max tokens.
C26_Witness ==
    /\ pc \in {"loop", "append", "tail"}
    /\ \A p \in DOMAIN tok : tok[p] <= config.chunk_max_tokens
    /\ \E k \in 1..Len(chunks) :
          SumTok(tok, chunks[k].text)
              = config.chunk_max_tokens + config.chunk_overlap_max

(***************************************************************************)
(* C27  For every chunk, in every state of a run, end_char - start_char is *)
(* the length in characters of the chunk's text; a tail merge keeps        *)
(* start_char and adds the length of the remainder plus one to end_char.   *)
(***************************************************************************)
C27_OffsetsSpanText ==
    \A k \in 1..Len(chunks) :
        chunks[k].end_char - chunks[k].start_char = TextLen(tok, chunks[k].text)

\* A tail merge into the second chunk or a later one, after a run without
\* end-of-input finalization.
C27_Witness ==
    /\ LastWasMerged
    /\ ~EndFinalizationFired
    /\ Len(chunks) >= 2
    /\ LastChunk.start_char > 0

(***************************************************************************)
(* C28  Whenever the output is not empty, the text of the first chunk      *)
(* begins with the first sentence and the text of the last chunk ends with *)
(* the last sentence.                                                      *)
(***************************************************************************)
C28_OutputSpansDocument ==
    (Done /\ chunks # <<>>) =>
        /\ chunks[1].text[1] = 1
        /\ LastChunk.text[Len(LastChunk.text)] = document.len

\* A tail merge into the only chunk, which stays the first and the last.
C28_Witness ==
    /\ LastWasMerged
    /\ ~EndFinalizationFired
    /\ Len(chunks) = 1
    /\ document.len >= 3

(***************************************************************************)
(* C29  With a query embedding of 3072 values and an index query that      *)
(* succeeded, retrieve raises nothing and returns a list, whatever the     *)
(* matches are; when every match that passes the score threshold has       *)
(* missing or empty metadata text, the list is empty.                      *)
(***************************************************************************)
PassingMatches == FilterByScore(index_response.matches, Threshold)

C29_RetrieveNeverRaises ==
    (/\ retrieve_pc \in {"returned", "raised"}
     /\ query_embedding = EmbeddingDimension
     /\ index_response.ok) =>
        /\ retrieve_pc = "returned"
        /\ retrieve_raised = {}
        /\ retrieve_returned # {}
        /\ (\A j \in 1..Len(PassingMatches) :
                MetadataGetText(PassingMatches[j].metadata, "") = "")
              => retrieve_returned = {<<>>}

(***************************************************************************)
(* C30  Over any sequence of get_config and reload_config calls and        *)
(* changes of the environment: a call that raises leaves the stored        *)
(* configuration as it was (unset after a failed first load, the           *)
(* previously loaded Config after a failed reload); get_config loads when  *)
(* nothing is stored; and get_config with a Config stored returns that     *)
(* very instance, without loading and without raising.                     *)
(***************************************************************************)
C30_FailedLoadKeepsStoredConfig ==
    [][/\ last_call'.raised # {} => global_config' = global_config
       /\ (last_call'.op = "get_config" /\ global_config = {}) =>
             /\ last_call'.loaded
             /\ global_config' = last_call'.returned
       /\ (last_call'.op = "get_config" /\ global_config # {}) =>
             /\ ~last_call'.loaded
             /\ last_call'.raised = {}
             /\ last_call'.returned = global_config
             /\ global_config' = global_config
      ]_vars

\* get_config has returned the stored Config in an environment in which a
\* load would raise (as reload_config did, or would, since the environment
\* changed).
C30_Witness ==
    /\ last_call.op = "get_config"
    /\ ~last_call.loaded
    /\ last_call.returned = global_config
    /\ global_config # {}
    /\ \E c \in global_config : c.instance = 1
    /\ FromEnv(environ).raised # {}

====
